---------------------------- MODULE Spec2Model ----------------------------
(***************************************************************************)
(* The prompt catalogue page of gc-prompt-library                          *)
(* (src/src/routes/+page.svelte).  The file holds two variants of the     *)
(* page component: the first (lines 1-81) without the copy-to-clipboard   *)
(* affordance, the second (lines 510-654) with it.  `variant` selects the *)
(* component a behaviour runs.                                             *)
(*                                                                         *)
(* Strings are sequences of one-character strings, so that toLowerCase,   *)
(* includes, split and trim are computed character by character.          *)
(***************************************************************************)
EXTENDS Integers, Sequences, FiniteSets, TLC

VARIABLES
    variant,            \* 1: lines 1-81, 2: lines 510-654; 0 while the page
                        \* load runs and no component is constructed
    mounted,            \* onMount has run (variant 2)
    prompts,            \* let prompts: Prompt[]
    filtered,           \* let filtered: Prompt[]
    searchTerm,         \* let searchTerm
    currentFilter,      \* let currentFilter
    showModal,          \* let showModal
    newTitle,           \* let newTitle
    newPromptText,      \* let newPromptText
    newUse,             \* let newUse
    newTagsInput,       \* let newTagsInput
    copiedPromptId,     \* let copiedPromptId: number | null
    copyError,          \* let copyError
    clipboardSupported, \* let clipboardSupported
    pendingSaves,       \* savePrompt invocations suspended at the await
    pendingWrites,      \* copyPrompt invocations suspended at the await
    timers,             \* setTimeout callbacks not yet fired, in scheduling order
    nextId,             \* the store's next primary key
    response,           \* the { data, error } the last handler step got from
                        \* the store, NoResponse when it got none
    alert,              \* the alert() shown by the last handler step, "" when none
    latestCopy,         \* history: the id of the latest copyPrompt call that
                        \* started a clipboard write, Null before the first
    event               \* the handler step that ran last; "input" stands for
                        \* the synchronous input handlers (search box, filter
                        \* buttons, modal and form fields)

vars == << variant, mounted, prompts, filtered, searchTerm, currentFilter,
           showModal, newTitle, newPromptText, newUse, newTagsInput,
           copiedPromptId, copyError, clipboardSupported, pendingSaves,
           pendingWrites, timers, nextId, response, alert, latestCopy, event >>

catalogVars == << prompts, filtered, searchTerm, currentFilter >>
formVars    == << newTitle, newPromptText, newUse, newTagsInput >>
copyVars    == << copiedPromptId, copyError, pendingWrites, timers, latestCopy >>
copyState   == << copiedPromptId, copyError, pendingWrites, timers >>
storeVars   == << pendingSaves, nextId >>
fixedVars   == << variant, mounted, clipboardSupported >>

---------------------------------------------------------------------------
(* Bounds of the model *)

\* create requests in flight plus records created, per behaviour
MaxCreate == 2
\* copy actions in flight (clipboard writes pending plus revert timers pending)
MaxCopy == 2
\* length of the raw tag input strings of TagSpec
MaxTagLen == 8

---------------------------------------------------------------------------
(* Strings *)

Null == << >>
Some(x) == << x >>

\* the { data, error } of a store call
Response(error, data) == [ error |-> error, data |-> data ]
NoResponse == Null

EmptyStr == << >>

Comma == ","
Space == " "

\* String.prototype.toLowerCase on one character
LowerChar(c) ==
    CASE c = "A" -> "a"
      [] c = "B" -> "b"
      [] c = "C" -> "c"
      [] OTHER   -> c

\* String.prototype.toLowerCase
toLowerCase(s) == [i \in 1..Len(s) |-> LowerChar(s[i])]

\* String.prototype.includes
includes(s, t) ==
    \E i \in 0..(Len(s) - Len(t)) : SubSeq(s, i + 1, i + Len(t)) = t

\* Array.prototype.includes
arrayIncludes(a, x) == \E i \in 1..Len(a) : a[i] = x

\* String.prototype.split(','): the segments between the commas, s itself when
\* it holds none (the empty string gives one empty segment)
RECURSIVE split(_)
split(s) ==
    IF \A i \in 1..Len(s) : s[i] # Comma
    THEN << s >>
    ELSE LET k == CHOOSE i \in 1..Len(s) :
                      s[i] = Comma /\ \A j \in 1..(i - 1) : s[j] # Comma
         IN  << SubSeq(s, 1, k - 1) >> \o split(SubSeq(s, k + 1, Len(s)))

\* String.prototype.trim
RECURSIVE trimStart(_)
trimStart(s) ==
    IF s # << >> /\ Head(s) = Space THEN trimStart(Tail(s)) ELSE s

RECURSIVE trimEnd(_)
trimEnd(s) ==
    IF s # << >> /\ s[Len(s)] = Space THEN trimEnd(SubSeq(s, 1, Len(s) - 1)) ELSE s

trim(s) == trimEnd(trimStart(s))

\* Array.prototype.slice(0, n)
slice0(a, n) == SubSeq(a, 1, IF Len(a) < n THEN Len(a) ELSE n)

\* the tag cap of .slice(0, 3)
TagCap == 3

\* parseTags without the slice(0, 3)
parseTagsUncapped(raw) ==
    LET segs    == split(raw)
        trimmed == [i \in 1..Len(segs) |-> trim(segs[i])]
    IN  SelectSeq(trimmed, LAMBDA t : t # EmptyStr)

\* parseTags with the cap applied before the empty segments are dropped
parseTagsCapFirst(raw) ==
    LET segs    == split(raw)
        trimmed == [i \in 1..Len(segs) |-> trim(segs[i])]
    IN  SelectSeq(slice0(trimmed, TagCap), LAMBDA t : t # EmptyStr)

\* newTagsInput.split(',').map(t => t.trim()).filter(Boolean).slice(0, 3)
parseTags(raw) ==
    LET segs    == split(raw)
        trimmed == [i \in 1..Len(segs) |-> trim(segs[i])]
        kept    == SelectSeq(trimmed, LAMBDA t : t # EmptyStr)
    IN  slice0(kept, TagCap)

---------------------------------------------------------------------------
(* The data of the page *)

All           == << "a", "l", "l" >>
Copywriting   == << "c", "o", "p", "y" >>
ImageGen      == << "i", "m", "g", " ", "g" >>
Admin         == << "a", "d", "m" >>
Brainstorming == << "b", "r", "a", "i", "n" >>

\* the filter buttons of the page
Categories == << All, Copywriting, ImageGen, Admin, Brainstorming >>

Prompt(id, title, prompt, use, tags, updated_at) ==
    [ id |-> id, title |-> title, prompt |-> prompt, use |-> use,
      tags |-> tags, updated_at |-> updated_at ]

\* data.prompts as load returns it: rows of the store, ordered by updated_at
\* descending; the store does not cap the tags of a row, nor require a body
LoadedPrompts ==
    << Prompt(1, << "A", "b" >>, << "x", "B" >>, << "c" >>, << Admin >>, 5),
       Prompt(2, << "b" >>, EmptyStr, << "x", "a", "b" >>,
              << Copywriting, Admin, << "a" >>, << "b" >> >>, 4),
       Prompt(3, << "c" >>, << "y" >>, << "B" >>, << << "a", "b" >> >>, 2) >>

\* what the user types into the search box
SearchInputs == { EmptyStr, << "a", "B" >> }

\* what the user types into the form
TitleInputs  == { EmptyStr, << "A", "b" >> }
PromptInputs == { EmptyStr, << "x" >> }
UseInputs    == { EmptyStr, << " " >> }
TagsInputs   == { EmptyStr,
                  << "a", "d", "m", ",", " ", "a", ",", ",", "b", ",", "c" >> }

\* the first id the store assigns after the loaded rows
FirstNewId == 4

\* the clock readings of new Date() and Date.now() (milliseconds)
ClockValues == { 100, 101 }
\* the updated_at the store gives a new row: older than the newest loaded row
ServerTimes == { 3 }

---------------------------------------------------------------------------
(* The filter *)

\* matches without the toLowerCase of the record's fields
matchesCaseSensitive(p, term, filter) ==
    LET matchFilter == filter = All \/ arrayIncludes(p.tags, filter)
        matchSearch == \/ term = EmptyStr
                       \/ includes(p.title, term)
                       \/ includes(p.prompt, term)
                       \/ includes(p.use, term)
    IN  matchFilter /\ matchSearch

\* the predicate of prompts.filter in updateFiltered
matches(p, term, filter) ==
    LET matchFilter == filter = All \/ arrayIncludes(p.tags, filter)
        matchSearch == \/ term = EmptyStr
                       \/ includes(toLowerCase(p.title), term)
                       \/ includes(toLowerCase(p.prompt), term)
                       \/ includes(toLowerCase(p.use), term)
    IN  matchFilter /\ matchSearch

\* updateFiltered: the value it assigns to filtered
updateFiltered(ps, st, cf) ==
    LET term == toLowerCase(st)
    IN  SelectSeq(ps, LAMBDA p : matches(p, term, cf))

---------------------------------------------------------------------------
(* Initial state: the component's script has run, onMount has not *)

Init ==
    /\ variant \in { 1, 2 }
    /\ mounted = (variant = 1)
    /\ prompts = LoadedPrompts
    /\ filtered = prompts
    /\ searchTerm = EmptyStr
    /\ currentFilter = All
    /\ showModal = FALSE
    /\ newTitle = EmptyStr
    /\ newPromptText = EmptyStr
    /\ newUse = EmptyStr
    /\ newTagsInput = EmptyStr
    /\ copiedPromptId = Null
    /\ copyError = ""
    /\ clipboardSupported = FALSE
    /\ pendingSaves = << >>
    /\ pendingWrites = << >>
    /\ timers = << >>
    /\ nextId = FirstNewId
    /\ response = NoResponse
    /\ alert = ""
    /\ latestCopy = Null
    /\ event = "init"

---------------------------------------------------------------------------
(* Handlers *)

\* onMount(() => { clipboardSupported = !!navigator.clipboard?.writeText })
onMount(capability) ==
    /\ variant = 2
    /\ ~mounted
    /\ mounted' = TRUE
    /\ clipboardSupported' = capability
    /\ alert' = ""
    /\ response' = NoResponse
    /\ event' = "onMount"
    /\ UNCHANGED << variant, catalogVars, showModal, formVars, copyVars, storeVars >>

\* onSearch narrowing the full set itself: prompts = prompts.filter(...)
onSearchNarrowing(value) ==
    /\ mounted
    /\ searchTerm' = value
    /\ prompts' = updateFiltered(prompts, value, currentFilter)
    /\ filtered' = prompts'
    /\ alert' = ""
    /\ response' = NoResponse
    /\ event' = "input"
    /\ UNCHANGED << fixedVars, currentFilter, showModal, formVars,
                    copyVars, storeVars >>

\* onSearch comparing the term with the fields as they are written
onSearchCaseSensitive(value) ==
    /\ mounted
    /\ searchTerm' = value
    /\ filtered' = SelectSeq(prompts, LAMBDA p :
                       matchesCaseSensitive(p, toLowerCase(value), currentFilter))
    /\ alert' = ""
    /\ response' = NoResponse
    /\ event' = "input"
    /\ UNCHANGED << fixedVars, prompts, currentFilter, showModal, formVars,
                    copyVars, storeVars >>

onSearch(value) ==
    /\ mounted
    /\ searchTerm' = value
    /\ filtered' = updateFiltered(prompts, value, currentFilter)
    /\ alert' = ""
    /\ response' = NoResponse
    /\ event' = "input"
    /\ UNCHANGED << fixedVars, prompts, currentFilter, showModal, formVars,
                    copyVars, storeVars >>

setFilter(filter) ==
    /\ mounted
    /\ currentFilter' = filter
    /\ filtered' = updateFiltered(prompts, searchTerm, filter)
    /\ alert' = ""
    /\ response' = NoResponse
    /\ event' = "input"
    /\ UNCHANGED << fixedVars, prompts, searchTerm, showModal, formVars,
                    copyVars, storeVars >>

\* openModal showing the form as it was left: only showModal = true
openModalKeeping ==
    /\ mounted
    /\ showModal' = TRUE
    /\ alert' = ""
    /\ response' = NoResponse
    /\ event' = "input"
    /\ UNCHANGED << fixedVars, catalogVars, formVars, copyVars, storeVars >>

openModal ==
    /\ mounted
    /\ newTitle' = EmptyStr
    /\ newPromptText' = EmptyStr
    /\ newUse' = EmptyStr
    /\ newTagsInput' = EmptyStr
    /\ showModal' = TRUE
    /\ alert' = ""
    /\ response' = NoResponse
    /\ event' = "input"
    /\ UNCHANGED << fixedVars, catalogVars, copyVars, storeVars >>

\* closeModal persisting the form on its way out: the insert is sent
closeModalSubmitting ==
    /\ mounted
    /\ showModal
    /\ showModal' = FALSE
    /\ pendingSaves' =
           IF Len(pendingSaves) < MaxCreate
           THEN Append(pendingSaves,
                       [ title |-> newTitle, prompt |-> newPromptText,
                         use |-> newUse, tags |-> parseTags(newTagsInput) ])
           ELSE pendingSaves
    /\ alert' = ""
    /\ response' = NoResponse
    /\ event' = "input"
    /\ UNCHANGED << fixedVars, catalogVars, formVars, copyVars, nextId >>

\* Cancel, Escape and a click on the backdrop all call closeModal
closeModal ==
    /\ mounted
    /\ showModal
    /\ showModal' = FALSE
    /\ alert' = ""
    /\ response' = NoResponse
    /\ event' = "input"
    /\ UNCHANGED << fixedVars, catalogVars, formVars, copyVars, storeVars >>

\* bind:value of the four inputs of the modal
editTitle(value) ==
    /\ mounted
    /\ showModal
    /\ newTitle' = value
    /\ alert' = ""
    /\ response' = NoResponse
    /\ event' = "input"
    /\ UNCHANGED << fixedVars, catalogVars, showModal, newPromptText, newUse,
                    newTagsInput, copyVars, storeVars >>

editPromptText(value) ==
    /\ mounted
    /\ showModal
    /\ newPromptText' = value
    /\ alert' = ""
    /\ response' = NoResponse
    /\ event' = "input"
    /\ UNCHANGED << fixedVars, catalogVars, showModal, newTitle, newUse,
                    newTagsInput, copyVars, storeVars >>

editUse(value) ==
    /\ mounted
    /\ showModal
    /\ newUse' = value
    /\ alert' = ""
    /\ response' = NoResponse
    /\ event' = "input"
    /\ UNCHANGED << fixedVars, catalogVars, showModal, newTitle, newPromptText,
                    newTagsInput, copyVars, storeVars >>

editTagsInput(value) ==
    /\ mounted
    /\ showModal
    /\ newTagsInput' = value
    /\ alert' = ""
    /\ response' = NoResponse
    /\ event' = "input"
    /\ UNCHANGED << fixedVars, catalogVars, showModal, newTitle, newPromptText,
                    newUse, copyVars, storeVars >>

\* the validation with the fields trimmed first
missingRequiredTrimmed(title, prompt, use) ==
    trim(title) = EmptyStr \/ trim(prompt) = EmptyStr \/ trim(use) = EmptyStr

\* !newTitle || !newPromptText || !newUse
missingRequired(title, prompt, use) ==
    title = EmptyStr \/ prompt = EmptyStr \/ use = EmptyStr

ValidationNotice == "Please fill in Title, Prompt, and Use"
SaveErrorNotice  == "Error saving prompt"
ClipboardNotice  == "Clipboard access is not available"
CopyErrorText    == "Failed to copy prompt. See console for details."

\* savePrompt, to its await: the validation, the tags and the insert request.
\* The payload is built before the await; the continuation keeps `tags` (a
\* const of the call) and reads the form fields again when it resumes.
savePrompt ==
    /\ mounted
    /\ showModal
    /\ event' = "savePrompt"
    /\ \/ /\ missingRequired(newTitle, newPromptText, newUse)
          /\ alert' = ValidationNotice
          /\ UNCHANGED pendingSaves
       \/ /\ ~missingRequired(newTitle, newPromptText, newUse)
          /\ Len(pendingSaves) + (nextId - FirstNewId) < MaxCreate
          /\ LET tags == parseTags(newTagsInput)
             IN  pendingSaves' = Append(pendingSaves,
                     [ title |-> newTitle, prompt |-> newPromptText,
                       use |-> newUse, tags |-> tags ])
          /\ alert' = ""
    /\ response' = NoResponse
    /\ UNCHANGED << fixedVars, catalogVars, showModal, formVars, copyVars, nextId >>

RemoveAt(s, i) == SubSeq(s, 1, i - 1) \o SubSeq(s, i + 1, Len(s))

\* insertFailed with closeModal() called on the error path too
insertFailedClosing(i) ==
    /\ i \in 1..Len(pendingSaves)
    /\ pendingSaves' = RemoveAt(pendingSaves, i)
    /\ response' = Some(Response(TRUE, Null))
    /\ alert' = IF variant = 1 THEN "" ELSE SaveErrorNotice
    /\ event' = "insertFailed"
    /\ showModal' = FALSE
    /\ UNCHANGED << fixedVars, catalogVars, formVars, copyVars, nextId >>

\* insertFailed adding the record all the same in the first variant: no
\* return in its error branch
insertFailedOptimistic(i) ==
    /\ i \in 1..Len(pendingSaves)
    /\ pendingSaves' = RemoveAt(pendingSaves, i)
    /\ response' = Some(Response(TRUE, Null))
    /\ alert' = IF variant = 1 THEN "" ELSE SaveErrorNotice
    /\ event' = "insertFailed"
    /\ IF variant = 1
       THEN /\ \E now \in ClockValues :
                  prompts' = << Prompt(-1, newTitle, newPromptText, newUse,
                                       pendingSaves[i].tags, now) >> \o prompts
            /\ filtered' = updateFiltered(prompts', searchTerm, currentFilter)
            /\ showModal' = FALSE
            /\ UNCHANGED << searchTerm, currentFilter >>
       ELSE UNCHANGED << catalogVars, showModal >>
    /\ UNCHANGED << fixedVars, formVars, copyVars, nextId >>

\* the continuation of savePrompt when the insert reports an error
insertFailed(i) ==
    /\ i \in 1..Len(pendingSaves)
    /\ pendingSaves' = RemoveAt(pendingSaves, i)
    /\ response' = Some(Response(TRUE, Null))
    /\ alert' = IF variant = 1 THEN "" ELSE SaveErrorNotice
    /\ event' = "insertFailed"
    /\ UNCHANGED << fixedVars, catalogVars, showModal, formVars, copyVars, nextId >>

\* the record the first variant prepends (line 77)
localPrompt1(tags, now) ==
    Prompt(-1, newTitle, newPromptText, newUse, tags, now)

\* tempPromptData of the second variant (lines 611-615); Date.now() and
\* new Date() run back to back and read the same millisecond
tempPromptData(tags, now) ==
    Prompt(now, newTitle, newPromptText, newUse, tags, now)

\* prependAndClose with the record put last: prompts = [...prompts, p]
appendAndClose(p) ==
    /\ prompts' = prompts \o << p >>
    /\ filtered' = updateFiltered(prompts', searchTerm, currentFilter)
    /\ showModal' = FALSE

\* prependAndClose on a stale copy of the set: the continuation prepends to
\* the array the page was constructed with, not to the current one
prependToStaleAndClose(p) ==
    /\ prompts' = << p >> \o LoadedPrompts
    /\ filtered' = updateFiltered(prompts', searchTerm, currentFilter)
    /\ showModal' = FALSE

\* prependAndClose without the updateFiltered() call
prependAndCloseNoRefilter(p) ==
    /\ prompts' = << p >> \o prompts
    /\ filtered' = filtered
    /\ showModal' = FALSE

\* prompts = [p, ...prompts]; updateFiltered(); closeModal()
prependAndClose(p) ==
    /\ prompts' = << p >> \o prompts
    /\ filtered' = updateFiltered(prompts', searchTerm, currentFilter)
    /\ showModal' = FALSE

\* the continuation of savePrompt when the insert succeeded: the store has
\* assigned the row its id and updated_at.  The first variant does not select
\* the row (data is null); the second gets the row, or null when the select
\* gave nothing.
insertDone(i) ==
    /\ i \in 1..Len(pendingSaves)
    /\ pendingSaves' = RemoveAt(pendingSaves, i)
    /\ nextId' = nextId + 1
    /\ alert' = ""
    /\ event' = "insertDone"
    /\ LET req == pendingSaves[i]
       IN  \/ /\ variant = 1
              /\ response' = Some(Response(FALSE, Null))
              /\ \E now \in ClockValues :
                     prependAndClose(localPrompt1(req.tags, now))
           \/ /\ variant = 2
              /\ \E at \in ServerTimes :
                   LET row == Prompt(nextId, req.title, req.prompt, req.use,
                                     req.tags, at)
                   IN  /\ response' = Some(Response(FALSE, Some(row)))
                       /\ prependAndClose(row)
           \/ /\ variant = 2
              /\ response' = Some(Response(FALSE, Null))
              /\ \E now \in ClockValues :
                     prependAndClose(tempPromptData(req.tags, now))
    /\ UNCHANGED << fixedVars, searchTerm, currentFilter, formVars, copyVars >>

\* copyPrompt without the return on an empty text
copyPromptEmptyToo(p) ==
    /\ mounted
    /\ variant = 2
    /\ event' = "copyPrompt"
    /\ \/ /\ ~clipboardSupported
          /\ alert' = ClipboardNotice
          /\ UNCHANGED copyVars
       \/ /\ clipboardSupported
          /\ Len(pendingWrites) + Len(timers) < MaxCopy
          /\ copyError' = ""
          /\ copiedPromptId' = Null
          /\ pendingWrites' = Append(pendingWrites, p.id)
          /\ latestCopy' = Some(p.id)
          /\ alert' = ""
          /\ UNCHANGED timers
    /\ response' = NoResponse
    /\ UNCHANGED << fixedVars, catalogVars, showModal, formVars, storeVars >>

\* copyPrompt without the return after the capability alert
copyPromptNoReturn(p) ==
    /\ mounted
    /\ variant = 2
    /\ event' = "copyPrompt"
    /\ \/ /\ p.prompt = EmptyStr
          /\ alert' = IF clipboardSupported THEN "" ELSE ClipboardNotice
          /\ UNCHANGED copyVars
       \/ /\ p.prompt # EmptyStr
          /\ Len(pendingWrites) + Len(timers) < MaxCopy
          /\ copyError' = ""
          /\ copiedPromptId' = Null
          /\ pendingWrites' = Append(pendingWrites, p.id)
          /\ latestCopy' = Some(p.id)
          /\ alert' = IF clipboardSupported THEN "" ELSE ClipboardNotice
          /\ UNCHANGED timers
    /\ response' = NoResponse
    /\ UNCHANGED << fixedVars, catalogVars, showModal, formVars, storeVars >>

\* copyPrompt(p.prompt, p.id), to its await; the card is one of the view
copyPrompt(p) ==
    /\ mounted
    /\ variant = 2
    /\ event' = "copyPrompt"
    /\ \/ /\ ~clipboardSupported
          /\ alert' = ClipboardNotice
          /\ UNCHANGED copyVars
       \/ /\ clipboardSupported
          /\ p.prompt = EmptyStr
          /\ alert' = ""
          /\ UNCHANGED copyVars
       \/ /\ clipboardSupported
          /\ p.prompt # EmptyStr
          /\ Len(pendingWrites) + Len(timers) < MaxCopy
          /\ copyError' = ""
          /\ copiedPromptId' = Null
          /\ pendingWrites' = Append(pendingWrites, p.id)
          /\ latestCopy' = Some(p.id)
          /\ alert' = ""
          /\ UNCHANGED timers
    /\ response' = NoResponse
    /\ UNCHANGED << fixedVars, catalogVars, showModal, formVars, storeVars >>

\* the continuation of copyPrompt when writeText resolves
writeDone(i) ==
    /\ i \in 1..Len(pendingWrites)
    /\ pendingWrites' = RemoveAt(pendingWrites, i)
    /\ copiedPromptId' = Some(pendingWrites[i])
    /\ timers' = Append(timers, pendingWrites[i])
    /\ alert' = ""
    /\ response' = NoResponse
    /\ event' = "writeDone"
    /\ UNCHANGED << fixedVars, catalogVars, showModal, formVars, storeVars,
                    copyError, latestCopy >>

\* writeFailed marking the card all the same: copiedPromptId = id in the catch
writeFailedMarking(i) ==
    /\ i \in 1..Len(pendingWrites)
    /\ pendingWrites' = RemoveAt(pendingWrites, i)
    /\ copyError' = CopyErrorText
    /\ copiedPromptId' = Some(pendingWrites[i])
    /\ alert' = ""
    /\ response' = NoResponse
    /\ event' = "writeFailed"
    /\ UNCHANGED << fixedVars, catalogVars, showModal, formVars, storeVars,
                    timers, latestCopy >>

\* the continuation of copyPrompt when writeText rejects
writeFailed(i) ==
    /\ i \in 1..Len(pendingWrites)
    /\ pendingWrites' = RemoveAt(pendingWrites, i)
    /\ copyError' = CopyErrorText
    /\ alert' = ""
    /\ response' = NoResponse
    /\ event' = "writeFailed"
    /\ UNCHANGED << fixedVars, catalogVars, showModal, formVars, storeVars,
                    copiedPromptId, timers, latestCopy >>

\* the setTimeout callback with its test never true: copiedPromptId is left
timeoutKeeping ==
    /\ timers # << >>
    /\ timers' = Tail(timers)
    /\ copiedPromptId' = copiedPromptId
    /\ alert' = ""
    /\ response' = NoResponse
    /\ event' = "timeout"
    /\ UNCHANGED << fixedVars, catalogVars, showModal, formVars, storeVars,
                    copyError, pendingWrites, latestCopy >>

\* the setTimeout callback without its test: copiedPromptId = null
timeoutUnconditional ==
    /\ timers # << >>
    /\ timers' = Tail(timers)
    /\ copiedPromptId' = Null
    /\ alert' = ""
    /\ response' = NoResponse
    /\ event' = "timeout"
    /\ UNCHANGED << fixedVars, catalogVars, showModal, formVars, storeVars,
                    copyError, pendingWrites, latestCopy >>

\* the setTimeout callback; the timers all wait 1500 ms, so they fire in the
\* order they were set
timeout ==
    /\ timers # << >>
    /\ timers' = Tail(timers)
    /\ copiedPromptId' =
           IF copiedPromptId = Some(Head(timers)) THEN Null ELSE copiedPromptId
    /\ alert' = ""
    /\ response' = NoResponse
    /\ event' = "timeout"
    /\ UNCHANGED << fixedVars, catalogVars, showModal, formVars, storeVars,
                    copyError, pendingWrites, latestCopy >>

---------------------------------------------------------------------------
(* The page load (+page.server.ts) *)

\* the rows the store may hold when the page is requested
StoreRows == { LoadedPrompts[i] : i \in 1..Len(LoadedPrompts) }
StoreTables == SUBSET StoreRows

\* .order('updated_at', { ascending: false }) on the selected rows
RECURSIVE order(_)
order(rows) ==
    IF rows = { } THEN << >>
    ELSE LET top == CHOOSE r \in rows : \A q \in rows : q.updated_at <= r.updated_at
         IN  << top >> \o order(rows \ { top })

\* load has sent its select and waits at the await; there is no page yet
LoadInit ==
    /\ variant = 0
    /\ mounted = FALSE
    /\ prompts = << >>
    /\ filtered = << >>
    /\ searchTerm = EmptyStr
    /\ currentFilter = All
    /\ showModal = FALSE
    /\ newTitle = EmptyStr
    /\ newPromptText = EmptyStr
    /\ newUse = EmptyStr
    /\ newTagsInput = EmptyStr
    /\ copiedPromptId = Null
    /\ copyError = ""
    /\ clipboardSupported = FALSE
    /\ pendingSaves = << >>
    /\ pendingWrites = << >>
    /\ timers = << >>
    /\ nextId = FirstNewId
    /\ response = NoResponse
    /\ alert = ""
    /\ latestCopy = Null
    /\ event = "load"

\* loadFailed answering the error with an empty page: return { prompts: [] }
loadFailedEmptyPage ==
    /\ event = "load"
    /\ response' = Some(Response(TRUE, Null))
    /\ event' = "loadFailed"
    /\ variant' \in { 1, 2 }
    /\ mounted' = (variant' = 1)
    /\ UNCHANGED << catalogVars, showModal, formVars, copyVars, storeVars,
                    clipboardSupported, alert >>

\* the select reports an error: load logs it and throws it (lines 10-13); no
\* component is constructed and nothing runs after the throw
loadFailed ==
    /\ event = "load"
    /\ response' = Some(Response(TRUE, Null))
    /\ event' = "loadFailed"
    /\ UNCHANGED << fixedVars, catalogVars, showModal, formVars, copyVars,
                    storeVars, alert >>

\* loadDone with the view left empty: let filtered = []
loadDoneNoView(table) ==
    /\ event = "load"
    /\ LET data == order(table)
       IN  /\ response' = Some(Response(FALSE, Some(data)))
           /\ prompts' = data
           /\ filtered' = << >>
    /\ event' = "loadDone"
    /\ variant' \in { 1, 2 }
    /\ mounted' = (variant' = 1)
    /\ searchTerm' = EmptyStr
    /\ currentFilter' = All
    /\ showModal' = FALSE
    /\ UNCHANGED << formVars, copyVars, storeVars, clipboardSupported, alert >>

\* the select returns the rows of the table in its order: load returns
\* { prompts: data } (line 15) and the component's script runs on it (lines
\* 524-541 of +page.svelte): prompts = data.prompts, filtered = [...prompts]
loadDone(table) ==
    /\ event = "load"
    /\ LET data == order(table)
       IN  /\ response' = Some(Response(FALSE, Some(data)))
           /\ prompts' = data
           /\ filtered' = prompts'
    /\ event' = "loadDone"
    /\ variant' \in { 1, 2 }
    /\ mounted' = (variant' = 1)
    /\ searchTerm' = EmptyStr
    /\ currentFilter' = All
    /\ showModal' = FALSE
    /\ UNCHANGED << formVars, copyVars, storeVars, clipboardSupported, alert >>

---------------------------------------------------------------------------
(* Specifications *)

\* the search box, the filter buttons, the modal and its form
modalActions ==
    \/ openModal
    \/ closeModal
    \/ \E v \in TitleInputs : editTitle(v)
    \/ \E v \in PromptInputs : editPromptText(v)
    \/ \E v \in UseInputs : editUse(v)
    \/ \E v \in TagsInputs : editTagsInput(v)

inputActions ==
    \/ \E v \in SearchInputs : onSearch(v)
    \/ \E i \in 1..Len(Categories) : setFilter(Categories[i])
    \/ modalActions

createActions ==
    \/ savePrompt
    \/ \E i \in 1..MaxCreate : insertFailed(i)
    \/ \E i \in 1..MaxCreate : insertDone(i)

copyActions ==
    \/ \E c \in BOOLEAN : onMount(c)
    \/ \E k \in 1..Len(filtered) : copyPrompt(filtered[k])
    \/ \E i \in 1..MaxCopy : writeDone(i)
    \/ \E i \in 1..MaxCopy : writeFailed(i)
    \/ timeout

Next == inputActions \/ createActions \/ copyActions

Spec == Init /\ [][Next]_vars

\* The creation flow of both variants, in a browser that has the clipboard (no
\* action of it reads clipboardSupported or the copy state, and the copy
\* actions write nothing it reads).
CreateNext ==
    \/ onMount(TRUE)
    \/ \E v \in SearchInputs : onSearch(v)
    \/ modalActions
    \/ createActions

CreateSpec == Init /\ [][CreateNext]_vars

\* The catalogue: the creation flow with the search box and the filter buttons.
CatalogNext ==
    \/ onMount(TRUE)
    \/ inputActions
    \/ createActions

CatalogSpec == Init /\ [][CatalogNext]_vars

\* The copy affordance of the second variant, on the cards of the loaded view.
CopyInit == Init /\ variant = 2

CopyNext ==
    \/ \E v \in SearchInputs : onSearch(v)
    \/ \E i \in 1..Len(Categories) : setFilter(Categories[i])
    \/ copyActions

CopySpec == CopyInit /\ [][CopyNext]_vars

\* The copy affordance with the environment doing its part: the promise of
\* writeText settles (it resolves or it rejects) and a timer that was set
\* fires.
CopyLiveSpec ==
    /\ CopyInit
    /\ [][CopyNext]_vars
    /\ WF_vars(\E i \in 1..MaxCopy : writeDone(i) \/ writeFailed(i))
    /\ WF_vars(timeout)

\* The page from its request on: the load, then the mount, the search box and
\* the filter buttons of the page it gives.
LoadNext ==
    \/ loadFailed
    \/ \E t \in StoreTables : loadDone(t)
    \/ \E c \in BOOLEAN : onMount(c)
    \/ \E v \in SearchInputs : onSearch(v)
    \/ \E i \in 1..Len(Categories) : setFilter(Categories[i])

LoadSpec == LoadInit /\ [][LoadNext]_vars

\* Filtering applied again.  The page was loaded on some table of the store, the
\* user typed a term, picked a category, opened the modal and clicked Save on
\* the empty form (the validation notice is up); then the input event of the
\* search box fires with the term it holds, or the button of the current
\* category is clicked.
ReapplyInit ==
    /\ variant \in { 1, 2 }
    /\ mounted = TRUE
    /\ clipboardSupported \in BOOLEAN
    /\ (variant = 1 => clipboardSupported = FALSE)
    /\ prompts \in { order(t) : t \in StoreTables }
    /\ searchTerm \in SearchInputs
    /\ currentFilter \in { Categories[i] : i \in 1..Len(Categories) }
    /\ filtered = updateFiltered(prompts, searchTerm, currentFilter)
    /\ showModal = TRUE
    /\ newTitle = EmptyStr
    /\ newPromptText = EmptyStr
    /\ newUse = EmptyStr
    /\ newTagsInput = EmptyStr
    /\ copiedPromptId = Null
    /\ copyError = ""
    /\ pendingSaves = << >>
    /\ pendingWrites = << >>
    /\ timers = << >>
    /\ nextId = FirstNewId
    /\ response = NoResponse
    /\ alert = ValidationNotice
    /\ latestCopy = Null
    /\ event = "savePrompt"

ReapplyNext ==
    \/ onSearch(searchTerm)
    \/ setFilter(currentFilter)

ReapplySpec == ReapplyInit /\ [][ReapplyNext]_vars

\* The modal opened again.  The user typed a term, picked a category, opened
\* the modal, typed into the form and cancelled (after a failed submission or
\* without one): the modal is closed and the fields hold what was typed; then
\* the add button is clicked.
ReopenInit ==
    /\ variant \in { 1, 2 }
    /\ mounted = TRUE
    /\ clipboardSupported \in BOOLEAN
    /\ (variant = 1 => clipboardSupported = FALSE)
    /\ prompts = LoadedPrompts
    /\ searchTerm \in SearchInputs
    /\ currentFilter \in { Categories[i] : i \in 1..Len(Categories) }
    /\ filtered = updateFiltered(prompts, searchTerm, currentFilter)
    /\ showModal = FALSE
    /\ newTitle \in TitleInputs
    /\ newPromptText \in PromptInputs
    /\ newUse \in UseInputs
    /\ newTagsInput \in TagsInputs
    /\ copiedPromptId = Null
    /\ copyError = ""
    /\ pendingSaves = << >>
    /\ pendingWrites = << >>
    /\ timers = << >>
    /\ nextId = FirstNewId
    /\ response = NoResponse
    /\ alert = ""
    /\ latestCopy = Null
    /\ event = "input"

ReopenSpec == ReopenInit /\ [][openModal]_vars

\* The cards of the second variant: records are created (the form is filled in
\* and saved) and the cards of the view are copied.
CardNext ==
    \/ onMount(TRUE)
    \/ openModal
    \/ \E v \in TitleInputs : editTitle(v)
    \/ \E v \in PromptInputs : editPromptText(v)
    \/ \E v \in UseInputs : editUse(v)
    \/ savePrompt
    \/ \E i \in 1..MaxCreate : insertDone(i)
    \/ \E k \in 1..Len(filtered) : copyPrompt(filtered[k])
    \/ \E i \in 1..MaxCopy : writeDone(i)
    \/ timeout

CardSpec == CopyInit /\ [][CardNext]_vars

\* The tags of the insert request, for every raw tag input of at most MaxTagLen
\* characters: the modal is open, the form filled in, and Save is clicked.
TagChars == { "a", "b", Comma, Space }

TagStrings == UNION { [1..n -> TagChars] : n \in 0..MaxTagLen }

TagInit ==
    /\ variant \in { 1, 2 }
    /\ mounted = TRUE
    /\ clipboardSupported = (variant = 2)
    /\ prompts = LoadedPrompts
    /\ filtered = prompts
    /\ searchTerm = EmptyStr
    /\ currentFilter = All
    /\ showModal = TRUE
    /\ newTitle \in TitleInputs
    /\ newPromptText = << "x" >>
    /\ newUse = << " " >>
    /\ newTagsInput \in TagStrings
    /\ (newTitle = EmptyStr => newTagsInput = EmptyStr)
    /\ copiedPromptId = Null
    /\ copyError = ""
    /\ pendingSaves = << >>
    /\ pendingWrites = << >>
    /\ timers = << >>
    /\ nextId = FirstNewId
    /\ response = NoResponse
    /\ alert = ""
    /\ latestCopy = Null
    /\ event = "input"

TagSpec == TagInit /\ [][savePrompt]_vars


---------------------------------------------------------------------------
(* Properties *)

IsSuffix(s, t) ==
    Len(s) <= Len(t) /\ SubSeq(t, Len(t) - Len(s) + 1, Len(t)) = s

\* The reference filter: a record is kept iff the category is "all" or one of
\* its tags, and the term is empty or, lower-cased, occurs in the lower-cased
\* title, body or use case.
RefLower(s) ==
    [i \in 1..Len(s) |->
        IF s[i] \in { "A", "B", "C" }
        THEN [A |-> "a", B |-> "b", C |-> "c"][s[i]]
        ELSE s[i]]

RefOccursIn(t, s) ==
    \E i \in 0..Len(s), j \in 0..Len(s) : i <= j /\ SubSeq(s, i + 1, j) = t

RefKeeps(r, term, category) ==
    /\ category = All \/ \E k \in DOMAIN r.tags : r.tags[k] = category
    /\ \/ term = EmptyStr
       \/ RefOccursIn(RefLower(term), RefLower(r.title))
       \/ RefOccursIn(RefLower(term), RefLower(r.prompt))
       \/ RefOccursIn(RefLower(term), RefLower(r.use))

RECURSIVE RefFilter(_, _, _)
RefFilter(rs, term, category) ==
    IF rs = << >> THEN << >>
    ELSE (IF RefKeeps(Head(rs), term, category) THEN << Head(rs) >> ELSE << >>)
         \o RefFilter(Tail(rs), term, category)

\* C1: in every reachable state the filtered view is the subsequence of the
\* full set, in its order, of the records the reference predicate keeps; the
\* tags are not searched by the search term.
C1_FilteredIsReference ==
    filtered = RefFilter(prompts, searchTerm, currentFilter)

\* C1's case: a search term is set and a record has been created, the view is a
\* proper, non-empty part of the set, and a record whose tag is the lower-cased
\* term is not in the view.
C1_Witness ==
    /\ searchTerm # EmptyStr
    /\ currentFilter = All
    /\ Len(prompts) > Len(LoadedPrompts)
    /\ filtered # << >>
    /\ Len(filtered) < Len(prompts)
    /\ \E i \in 1..Len(prompts) :
          /\ \E k \in 1..Len(prompts[i].tags) :
                 prompts[i].tags[k] = RefLower(searchTerm)
          /\ \A j \in 1..Len(filtered) : filtered[j] # prompts[i]

\* C2: a Save click sends a create request iff the raw title, body and use
\* case are all non-empty; when one is empty it sends none, shows the
\* validation notice and leaves the records, the view, the open modal and the
\* form fields as they were.
C2_SubmitValidation ==
    [][event' = "savePrompt" =>
          LET complete == /\ newTitle # EmptyStr
                          /\ newPromptText # EmptyStr
                          /\ newUse # EmptyStr
          IN  /\ (Len(pendingSaves') = Len(pendingSaves) + 1) <=> complete
              /\ complete => /\ alert' = ""
                             /\ SubSeq(pendingSaves', 1, Len(pendingSaves)) = pendingSaves
              /\ ~complete => /\ pendingSaves' = pendingSaves
                              /\ alert' = ValidationNotice
                              /\ showModal /\ showModal'
                              /\ UNCHANGED << prompts, filtered, formVars >>
    ]_vars

\* C2's case: Save was clicked with the title filled in and the use case
\* empty; the notice is up and nothing was sent.
C2_Witness ==
    /\ event = "savePrompt"
    /\ alert = ValidationNotice
    /\ newTitle # EmptyStr
    /\ newUse = EmptyStr
    /\ pendingSaves = << >>
    /\ showModal

\* The reference tag list, read off the raw input one character at a time:
\* a comma ends a segment; a segment counts when it holds a non-space
\* character, and is then taken from its first to its last non-space
\* character; the first three such segments are the tags.
RefStrip(seg) ==
    LET ink == { i \in 1..Len(seg) : seg[i] # Space }
        lo  == CHOOSE i \in ink : \A j \in ink : i <= j
        hi  == CHOOSE i \in ink : \A j \in ink : j <= i
    IN  IF ink = { } THEN << >> ELSE [i \in 1..(hi - lo + 1) |-> seg[lo + i - 1]]

RECURSIVE RefScan(_, _, _, _)
RefScan(raw, pos, seg, acc) ==
    LET closed == IF RefStrip(seg) = << >> \/ Len(acc) >= 3
                  THEN acc ELSE Append(acc, RefStrip(seg))
    IN  IF pos > Len(raw) THEN closed
        ELSE IF raw[pos] = "," THEN RefScan(raw, pos + 1, << >>, closed)
        ELSE RefScan(raw, pos + 1, Append(seg, raw[pos]), acc)

RefTags(raw) == RefScan(raw, 1, << >>, << >>)

\* C3: the tags of the create request are the reference tag list of the raw
\* tag input: comma-separated segments, trimmed, the empty ones dropped, then
\* the first three kept in order.
C3_TagsOfRequest ==
    (event = "savePrompt" /\ pendingSaves # << >>) =>
        pendingSaves[Len(pendingSaves)].tags = RefTags(newTagsInput)

\* C3's case: 'a,,b,a,b' was sent as [a, b, a]: the empty segment does not
\* count towards the three.
C3_Witness ==
    /\ event = "savePrompt"
    /\ newTagsInput = << "a", ",", ",", "b", ",", "a", ",", "b" >>
    /\ pendingSaves # << >>
    /\ pendingSaves[1].tags = << << "a" >>, << "b" >>, << "a" >> >>

\* C4: when a create request completes successfully, one record is put at
\* index 0 of the full set, whatever its updated_at; it carries the tags of the
\* completed request, and it is the returned row when the store returned one.
C4_NewRecordFirst ==
    [][event' = "insertDone" =>
          /\ Len(prompts') = Len(prompts) + 1
          /\ Tail(prompts') = prompts
          /\ \E i \in 1..Len(pendingSaves) :
                /\ pendingSaves' = RemoveAt(pendingSaves, i)
                /\ Head(prompts').tags = pendingSaves[i].tags
          /\ response' # NoResponse
          /\ ~response'[1].error
          /\ response'[1].data # Null => Head(prompts') = response'[1].data[1]
    ]_vars

\* C4's case: the store returned the row, whose updated_at is older than that
\* of the record now second; the row is first, with the id the store gave it.
C4_Witness ==
    /\ event = "insertDone"
    /\ response # NoResponse
    /\ response[1].data # Null
    /\ Len(prompts) > Len(LoadedPrompts)
    /\ prompts[1] = response[1].data[1]
    /\ prompts[1].id >= FirstNewId
    /\ prompts[1].updated_at < prompts[2].updated_at

\* C5: no two records of the full set have the same id, the records with a
\* sentinel id (-1, or the clock reading of the fallback) included.
C5_UniqueIds ==
    \A i, j \in 1..Len(prompts) : i # j => prompts[i].id # prompts[j].id

\* C6: the full set is prepend-only: over every step the old sequence is a
\* suffix of the new one.
C6_PrependOnly ==
    [][IsSuffix(prompts, prompts')]_vars

\* C6's case: two records were created; the loaded records are the tail of the
\* full set, in their order.
C6_Witness ==
    /\ Len(prompts) = Len(LoadedPrompts) + 2
    /\ SubSeq(prompts, 3, Len(prompts)) = LoadedPrompts

\* C7: the handling of a failed create request adds no record, leaves the view,
\* the modal and the four form fields as they are, and sends no request.
C7_FailureChangesNothing ==
    [][event' = "insertFailed" =>
          /\ UNCHANGED << prompts, filtered, searchTerm, currentFilter >>
          /\ UNCHANGED showModal
          /\ UNCHANGED formVars
          /\ Len(pendingSaves') = Len(pendingSaves) - 1
          /\ UNCHANGED nextId
    ]_vars

\* C7's case: a request failed while the modal was open with the form filled
\* in; the modal is open and the form is filled in.
C7_Witness ==
    /\ event = "insertFailed"
    /\ showModal
    /\ newTitle # EmptyStr /\ newPromptText # EmptyStr /\ newUse # EmptyStr
    /\ newTagsInput # EmptyStr
    /\ prompts = LoadedPrompts

\* C8: every failed create request is reported to the user by a notice, in
\* each variant.
C8_FailureNotified ==
    event = "insertFailed" => alert # ""

\* C9: once the clipboard writes of a copy of A and of a later copy of B have
\* both succeeded (and neither revert timer has fired), the feedback id is B,
\* the later copy, in whichever order the writes completed.
C9_LaterCopyShows ==
    ( /\ pendingWrites = << >>
      /\ Len(timers) = 2
      /\ timers[1] # timers[2] ) => copiedPromptId = latestCopy

\* C10: while clipboardSupported is false a copy changes neither the feedback
\* id nor the copy error, starts no clipboard write, sets no timer, and shows
\* the capability notice.
C10_NoCapabilityNoCopy ==
    [][(event' = "copyPrompt" /\ ~clipboardSupported) =>
          /\ alert' = ClipboardNotice
          /\ UNCHANGED << copiedPromptId, copyError, pendingWrites, timers >>
          /\ pendingWrites' = << >>
          /\ timers' = << >>
          /\ copiedPromptId' = Null
    ]_vars

\* C10's case: a card was clicked in a browser without the clipboard.
C10_Witness ==
    /\ event = "copyPrompt"
    /\ mounted
    /\ ~clipboardSupported
    /\ alert = ClipboardNotice
    /\ filtered # << >>

\* C11: the revert timer of a copy of A clears the feedback id only when the
\* feedback id is A as it fires; a feedback id set to another record by a newer
\* copy is left as it is.
C11_RevertOnlyOwnFeedback ==
    [][event' = "timeout" =>
          /\ timers # << >>
          /\ copiedPromptId = Some(Head(timers)) => copiedPromptId' = Null
          /\ copiedPromptId # Some(Head(timers)) => copiedPromptId' = copiedPromptId
    ]_vars

\* C11's case: an older timer has fired while the feedback id was that of the
\* newer copy, whose own timer is still pending; the feedback id is still the
\* newer copy's.
C11_Witness ==
    /\ event = "timeout"
    /\ copiedPromptId # Null
    /\ copiedPromptId = latestCopy
    /\ timers = << copiedPromptId[1] >>
    /\ pendingWrites = << >>

\* C12: the feedback of a successful copy lasts until that copy's own timer
\* fires, unless a later copy is triggered: a timer that fires while a later
\* one is pending is the timer of a previous copy (the timers fire in the order
\* they were set, each 1500 ms after its copy succeeded), and leaves the
\* feedback id as it is.
C12_FeedbackLastsFullDuration ==
    [][(event' = "timeout" /\ Len(timers) >= 2) =>
          copiedPromptId' = copiedPromptId
    ]_vars

\* C13: a rejected clipboard write sets the copy error notice and leaves the
\* feedback id and the timers as they are; the notice, once set, is cleared
\* only by a copy action that passes the preconditions and starts a write: no
\* timer and no other handler clears it.
C13_CopyErrorPersists ==
    [][/\ event' = "writeFailed" =>
             /\ copyError' = CopyErrorText
             /\ UNCHANGED << copiedPromptId, timers >>
       /\ (copyError # "" /\ copyError' # copyError) =>
             /\ event' = "copyPrompt"
             /\ copyError' = ""
             /\ clipboardSupported
             /\ Len(pendingWrites') = Len(pendingWrites) + 1
    ]_vars

\* C13's case: a write was rejected while the timer of an earlier, successful
\* copy was pending; the timer has fired and cleared the feedback id, and the
\* notice is still up.
C13_Witness ==
    /\ event = "timeout"
    /\ copyError = CopyErrorText
    /\ copiedPromptId = Null
    /\ timers = << >>
    /\ pendingWrites = << >>

\* C14: in every reachable state at most one record of the displayed view has
\* the feedback id as its id, so at most one card shows 'Copied!'.
C14_OneCopiedCard ==
    Cardinality({ k \in 1..Len(filtered) : copiedPromptId = Some(filtered[k].id) }) <= 1

\* C15: when the load succeeds, the page starts with the full set equal to the
\* whole sequence the store returned, which is ordered by updated_at
\* descending, the view equal to that sequence, the search term empty, the
\* category 'all' and the modal closed.
C15_InitialState ==
    [][event' = "loadDone" =>
          /\ response' # NoResponse
          /\ ~response'[1].error
          /\ LET data == response'[1].data[1]
             IN  /\ \A i, j \in 1..Len(data) :
                       i < j => data[i].updated_at >= data[j].updated_at
                 /\ prompts' = data
                 /\ filtered' = data
          /\ searchTerm' = EmptyStr
          /\ currentFilter' = All
          /\ showModal' = FALSE
    ]_vars

\* C15's case: the store held three rows; the page has just been constructed
\* on them, newest first, and all three are in the view.
C15_Witness ==
    /\ event = "loadDone"
    /\ variant \in { 1, 2 }
    /\ Len(prompts) = 3
    /\ prompts[1].updated_at > prompts[2].updated_at
    /\ prompts[2].updated_at > prompts[3].updated_at
    /\ filtered = prompts
    /\ response[1].data = Some(prompts)

\* C16: when the select of the load reports an error, the load ends with that
\* error: no record set is returned and no page is constructed on partial or
\* fallback data, and nothing follows: no second request is made.
C16_LoadFailureIsTerminal ==
    [][/\ event' = "loadFailed" =>
             /\ event = "load"
             /\ response' = Some(Response(TRUE, Null))
             /\ variant' = 0
             /\ ~mounted'
             /\ prompts' = << >>
             /\ filtered' = << >>
       /\ event # "loadFailed"
    ]_vars

\* C16's case: the load has failed; there is no page.
C16_Witness ==
    /\ event = "loadFailed"
    /\ response # NoResponse
    /\ response[1].error
    /\ response[1].data = Null
    /\ variant = 0

C18_CreatedTagsCapped ==
    \A i \in 1..(Len(prompts) - Len(LoadedPrompts)) : Len(prompts[i].tags) <= 3

\* C18's case: a record was created from a tag input of five segments, four
\* of them tags, and has the first three of them; a loaded record of the set
\* has four tags.
C18_Witness ==
    /\ Len(prompts) > Len(LoadedPrompts)
    /\ event = "insertDone"
    /\ prompts[1].tags = << Admin, << "a" >>, << "b" >> >>
    /\ Len(split(newTagsInput)) = 5
    /\ \E k \in 2..Len(prompts) : Len(prompts[k].tags) = 4

\* C19: a copy action that passes the preconditions leaves the feedback id
\* null at once, whatever timers are pending, and the feedback id stays free
\* of the prior copy's record until the new write completes: while the write
\* of a newer copy of another record is pending, the completion of the older
\* write does not make the older record the feedback id.
C19_NewCopyClearsFeedback ==
    [][/\ (event' = "copyPrompt" /\ pendingWrites' # pendingWrites) =>
             copiedPromptId' = Null
       /\ (/\ Len(pendingWrites) = 2
           /\ pendingWrites[1] # pendingWrites[2]
           /\ pendingWrites' = << pendingWrites[2] >>) =>
             copiedPromptId' # Some(pendingWrites[1])
    ]_vars

\* C20: a record made locally (the first variant's, and the second variant's
\* when the store returned no row) has the title, body, use case and tags of
\* the create request that has completed, whatever was done to the form and
\* the modal while the request was pending.
C20_LocalRecordIsRequest ==
    [][(event' = "insertDone" /\ response'[1].data = Null) =>
          \E i \in 1..Len(pendingSaves) :
              /\ pendingSaves' = RemoveAt(pendingSaves, i)
              /\ Head(prompts').title = pendingSaves[i].title
              /\ Head(prompts').prompt = pendingSaves[i].prompt
              /\ Head(prompts').use = pendingSaves[i].use
              /\ Head(prompts').tags = pendingSaves[i].tags
    ]_vars

\* C21, as stated: in the first variant every submission that passes the
\* validation ends with a record added to the full set, also when the store
\* reports that the insert failed; the second variant adds a record only when
\* the store reports success.
C21_FirstVariantAlwaysAdds ==
    [][/\ (variant = 1 /\ event' \in { "insertDone", "insertFailed" }) =>
             Len(prompts') = Len(prompts) + 1
       /\ (variant = 2 /\ Len(prompts') # Len(prompts)) => event' = "insertDone"
    ]_vars

\* C21, amended: in both variants a record is added only when the store
\* reports success.  A failed insert adds none, in the first variant too; a
\* successful insert of the first variant adds one client-made record (id -1,
\* no row is asked of the store).
C21_AddedOnlyAfterSuccess ==
    [][/\ Len(prompts') # Len(prompts) =>
             (event' = "insertDone" /\ ~response'[1].error)
       /\ event' = "insertFailed" =>
             (response'[1].error /\ prompts' = prompts /\ filtered' = filtered)
       /\ (event' = "insertDone" /\ variant = 1) =>
             /\ Len(prompts') = Len(prompts) + 1
             /\ Head(prompts').id = -1
             /\ response'[1].data = Null
    ]_vars

\* C21's case: an insert of the first variant has failed; no record was added.
C21_Witness ==
    /\ variant = 1
    /\ event = "insertFailed"
    /\ response # NoResponse
    /\ response[1].error
    /\ alert = ""
    /\ prompts = LoadedPrompts
    /\ filtered = LoadedPrompts

\* C22: in every reachable state in which the modal is closed, the four form
\* fields are empty.
C22_ClosedMeansReset ==
    ~showModal =>
        /\ newTitle = EmptyStr
        /\ newPromptText = EmptyStr
        /\ newUse = EmptyStr
        /\ newTagsInput = EmptyStr

\* C23: every transition of the modal from closed to open leaves the four
\* form fields empty, whatever they held, and changes nothing else of the
\* page but the modal state.
C23_OpenClearsForm ==
    [][(~showModal /\ showModal') =>
          /\ newTitle' = EmptyStr
          /\ newPromptText' = EmptyStr
          /\ newUse' = EmptyStr
          /\ newTagsInput' = EmptyStr
          /\ UNCHANGED << prompts, filtered, searchTerm, currentFilter >>
          /\ UNCHANGED << copiedPromptId, copyError, pendingWrites, timers >>
          /\ UNCHANGED << pendingSaves, nextId >>
          /\ UNCHANGED << variant, mounted, clipboardSupported >>
    ]_vars

\* C23's case: the modal has been opened on a page with a term and a category
\* set; the form is empty.
C23_Witness ==
    /\ showModal
    /\ newTitle = EmptyStr
    /\ newPromptText = EmptyStr
    /\ newUse = EmptyStr
    /\ newTagsInput = EmptyStr
    /\ searchTerm # EmptyStr
    /\ currentFilter = Admin
    /\ Len(filtered) = 2

\* C24: closing the modal by Cancel, Escape or a click on the backdrop sends
\* no create request and leaves the full set, the view, the search term and
\* the category as they are; only the modal state changes.
C24_CloseOnlyCloses ==
    [][(event' = "input" /\ showModal /\ ~showModal') =>
          /\ UNCHANGED << prompts, filtered, searchTerm, currentFilter >>
          /\ UNCHANGED << pendingSaves, nextId >>
          /\ UNCHANGED << newTitle, newPromptText, newUse, newTagsInput >>
          /\ UNCHANGED << copiedPromptId, copyError, pendingWrites, timers >>
    ]_vars

\* C24's case: the form was filled in and the modal closed without a Save
\* that succeeded (no row was ever inserted, so only closeModal can have closed
\* it): nothing is pending and the set is the loaded one.
C24_Witness ==
    /\ ~showModal
    /\ event = "input"
    /\ newTitle # EmptyStr
    /\ newPromptText # EmptyStr
    /\ newUse # EmptyStr
    /\ nextId = FirstNewId
    /\ pendingSaves = << >>
    /\ prompts = LoadedPrompts

\* C25: after every successful create outcome (returned row or local record)
\* the modal is closed and the view is the filter of the full set that holds
\* the new record, under the term and category in force.
C25_SuccessClosesAndRefilters ==
    [][event' = "insertDone" =>
          /\ ~showModal'
          /\ Len(prompts') = Len(prompts) + 1
          /\ UNCHANGED << searchTerm, currentFilter >>
          /\ filtered' = RefFilter(prompts', searchTerm, currentFilter)
    ]_vars

\* C25's case: a create has succeeded while a search term was set; the new
\* record matches the term and is first in the view, which leaves out some of
\* the records; the modal is closed.
C25_Witness ==
    /\ event = "insertDone"
    /\ ~showModal
    /\ searchTerm # EmptyStr
    /\ Len(prompts) = Len(LoadedPrompts) + 1
    /\ filtered # << >>
    /\ filtered[1] = prompts[1]
    /\ Len(filtered) < Len(prompts)

\* C26: overlapping submissions lose no update.  In every state the full set
\* has the loaded records plus one record for each create request that has
\* succeeded, and each successful completion, other requests pending or not,
\* puts the record of its own request before all the records present, which
\* stay.
C26_NoLostUpdate ==
    /\ [](Len(prompts) = Len(LoadedPrompts) + (nextId - FirstNewId))
    /\ [][event' = "insertDone" =>
             /\ SubSeq(prompts', 2, Len(prompts')) = prompts
             /\ \E i \in 1..Len(pendingSaves) :
                   /\ pendingSaves' = RemoveAt(pendingSaves, i)
                   /\ prompts'[1].tags = pendingSaves[i].tags
       ]_vars

\* C26's case: two create requests with different tags were pending at once;
\* one has just succeeded and its record is in the set while the other is
\* still pending.
C26_Witness ==
    /\ event = "insertDone"
    /\ Len(pendingSaves) = 1
    /\ Len(prompts) = Len(LoadedPrompts) + 1
    /\ prompts[1].tags # pendingSaves[1].tags
    /\ nextId = FirstNewId + 1

\* C27: when every pending write completes and every timer fires, then, once
\* no copy action starts a write any more, the feedback id becomes null and
\* stays null.
C27_FeedbackEndsNull ==
    <>[][Len(pendingWrites') <= Len(pendingWrites)]_vars
        => <>[](copiedPromptId = Null)

\* C27's case: a copy was made, its write resolved and marked the card, all
\* the writes have completed and all the timers have fired; the last timer has
\* just fired and no card is marked.
C27_Witness ==
    /\ event = "timeout"
    /\ latestCopy # Null
    /\ copyError = ""
    /\ pendingWrites = << >>
    /\ timers = << >>
    /\ copiedPromptId = Null

\* C28: with the clipboard capability present, a copy action on a record whose
\* body is empty does nothing: no clipboard write is started, no notice is
\* shown, no timer is set, and the feedback id and the copy error notice are
\* left as they were.  (The cards are those of the view: when every card of
\* the view has an empty body, the card clicked has one.)
C28_EmptyBodyIsNoOp ==
    [][(/\ event' = "copyPrompt"
        /\ clipboardSupported
        /\ \A k \in 1..Len(filtered) : filtered[k].prompt = EmptyStr)
       => /\ alert' = ""
          /\ pendingWrites' = pendingWrites
          /\ timers' = timers
          /\ copiedPromptId' = copiedPromptId
          /\ copyError' = copyError
    ]_vars

\* C28's case: the view holds one card, of empty body; it was clicked while
\* another card was marked as copied and its timer was running, and the mark
\* and the timer are still there.
C28_Witness ==
    /\ event = "copyPrompt"
    /\ clipboardSupported
    /\ Len(filtered) = 1
    /\ filtered[1].prompt = EmptyStr
    /\ copiedPromptId # Null
    /\ timers # << >>
    /\ alert = ""

\* C29: the copy error notice and the "Copied!" feedback are never active
\* together: in every reachable state in which copyError is not empty, the
\* feedback id is null.
C29_ErrorExcludesFeedback ==
    copyError # "" => copiedPromptId = Null

=============================================================================
